---- MODULE Spec2Model ----
(***************************************************************************)
(* Verification model of the decoding layer of tpu_mtj_backend.py:         *)
(* the logit filters (top-k, top-p, tail-free, temperature), the          *)
(* repetition penalty, the per-slot sampling step, and the dynamic and    *)
(* static generation loops with their round-robin slot queue.             *)
(*                                                                         *)
(* Numbers.  A logit is an integer, or NegInf for -infinity.  exp() is the *)
(* table ExpTable (10^4 * e^x, x in -ExpRange..ExpRange), so softmax       *)
(* masses are integers and a comparison "mass > p" with p = pn/pd is the   *)
(* integer comparison mass*pd > pn*total.  Divisions round toward zero.    *)
(***************************************************************************)
EXTENDS Integers, Sequences, FiniteSets, TLC

\* ------------------------------------------------------------------ numbers

\* -np.inf / -jnp.inf, the value the filters write for a removed token.
NegInf == -1000

\* The floating-point NaN (0/0 in the slope formula, softmax of an all -inf
\* row).  NaN compares False with everything and sorts after every number.
NaN == -2000

\* round(10^4 * e^x) for x = -9 .. 9
ExpTable ==
  <<1, 3, 9, 25, 67, 183, 498, 1353, 3679, 10000, 27183, 73891, 200855,
    545982, 1484132, 4034288, 10966332, 29809580, 81030839>>

ExpRange == Len(ExpTable) \div 2

\* e^x of a logit; e^-inf = 0; arguments beyond the table saturate.
Exp(x) ==
  IF x = NegInf THEN 0
  ELSE IF x < -ExpRange THEN 0
  ELSE IF x > ExpRange THEN ExpTable[2 * ExpRange + 1]
  ELSE ExpTable[x + ExpRange + 1]

Abs(x) == IF x < 0 THEN -x ELSE x

\* a / b rounded toward zero, b > 0
RDiv(a, b) == IF a >= 0 THEN a \div b ELSE -((-a) \div b)

IsNumber(x) == x # NegInf /\ x # NaN

\* x * (n/d) and x / (n/d) on logits; -inf stays -inf, NaN stays NaN (n, d > 0)
MulRat(x, n, d) == IF IsNumber(x) THEN RDiv(x * n, d) ELSE x
DivRat(x, n, d) == IF IsNumber(x) THEN RDiv(x * d, n) ELSE x

RECURSIVE SumTo(_, _)
\* f[0] + ... + f[n-1] for a function f on 0..(n-1) or beyond
SumTo(f, n) == IF n <= 0 THEN 0 ELSE f[n - 1] + SumTo(f, n - 1)

Len0(f) == Cardinality(DOMAIN f)

\* ------------------------------------------------------------------ sorting

\* np.argsort(-logits) / jnp.argsort(-logits): a permutation perm of the
\* ids, perm[r] = id of rank r, in descending order of logit.  jnp.argsort is
\* stable (ties in ascending id order); numpy's default quicksort leaves the
\* order of ties to the implementation.
IsDescending(logits, perm) ==
  \A r \in DOMAIN perm : \A s \in DOMAIN perm :
      r < s => logits[perm[r]] >= logits[perm[s]]

HasNaN(logits) == \E i \in DOMAIN logits : logits[i] = NaN

IsStable(logits, perm) ==
  \A r \in DOMAIN perm : \A s \in DOMAIN perm :
      (r < s /\ logits[perm[r]] = logits[perm[s]]) => perm[r] < perm[s]

Permutations0(V) ==
  {p \in [0 .. V - 1 -> 0 .. V - 1] : \A i \in 0 .. V - 1 : \E r \in 0 .. V - 1 : p[r] = i}

Argsorts(mode, logits) ==
  LET V == Len0(logits)
      desc == {p \in Permutations0(V) : IsDescending(logits, p)}
  IN  IF mode = "static" THEN {p \in desc : IsStable(logits, p)} ELSE desc

\* rank of id i under perm
RankOf(perm, i) == CHOOSE r \in DOMAIN perm : perm[r] = i

\* jax.lax.sort_key_val(argsort, sorted_indices_to_remove) followed by
\* where(indices_to_remove, -inf, logits): id i is removed iff its rank is.
Unsort(logits, perm, sortedRemove) ==
  [i \in DOMAIN logits |->
      IF sortedRemove[RankOf(perm, i)] THEN NegInf ELSE logits[i]]

\* ------------------------------------------------------------------ filters

\* top_k_filter with > for >=
top_k_filter_OffByOne(logits, top_k, perm) ==
  Unsort(logits, perm, [r \in DOMAIN logits |-> r > top_k])

\* top_k_filter: ranks >= top_k are removed
top_k_filter(logits, top_k, perm) ==
  Unsort(logits, perm, [r \in DOMAIN logits |-> r >= top_k])

\* top_p_filter: ranks whose cumulative softmax mass exceeds top_p = pn/pd are
\* removed, rank 0 never.  An all -inf row has NaN masses: NaN > p is False.
top_p_filter(logits, pn, pd, perm) ==
  LET V == Len0(logits)
      w == [r \in 0 .. V - 1 |-> Exp(logits[perm[r]])]
      total == SumTo(w, V)
      rem == [r \in 0 .. V - 1 |->
                 /\ r # 0
                 /\ total > 0
                 /\ ~HasNaN(logits)
                 /\ SumTo(w, r + 1) * pd > pn * total]
  IN  Unsort(logits, perm, rem)

\* The dynamic tail_free_filter assigns sorted_indices_to_remove[0] = False in
\* a numpy array of length V-2: IndexError when V <= 2.  In both versions the
\* padded mask has length max(V-2,0)+2, which sort_key_val rejects when V = 1.
tail_free_raises(mode, V) == V < 2 \/ (mode = "dynamic" /\ V < 3)

\* The static sorted_indices_to_remove.at[0].set(False) on the empty array of
\* V = 2: the update is dropped as out of bounds, or the indexing of an axis
\* of size 0 is rejected with IndexError, depending on the jax in use.
tail_free_may_raise(mode, V) == mode = "static" /\ V = 2

\* tail_free_filter (V >= 2): d2 = |second differences| of the sorted softmax,
\* normalised; ranks whose cumulative d2 exceeds tfs = tn/td are removed, rank
\* 0 of the d2 array never (a no-op of .at[0].set when the array is empty),
\* the last two ranks always.  d2.sum() = 0 gives NaN: NaN > tfs is False.
tail_free_filter(logits, tn, td, perm) ==
  LET V == Len0(logits)
      w == [r \in 0 .. V - 1 |-> Exp(logits[perm[r]])]
      total == SumTo(w, V)
      d2 == [r \in 0 .. V - 3 |-> Abs(w[r + 2] - 2 * w[r + 1] + w[r])]
      sumd2 == SumTo(d2, V - 2)
      rem == [r \in 0 .. V - 1 |->
                 IF r >= V - 2 THEN TRUE
                 ELSE /\ r # 0
                      /\ total > 0
                      /\ ~HasNaN(logits)
                      /\ sumd2 > 0
                      /\ SumTo(d2, r + 1) * td > tn * sumd2]
  IN  Unsort(logits, perm, rem)

\* logits / temp with temp = tn/td > 0
temp_filter(logits, tn, td) ==
  [i \in DOMAIN logits |-> DivRat(logits[i], tn, td)]

\* ------------------------------------------------------------------ sizes

\* params["seq"] / config["seq"]: the context window (2048 in the program,
\* scaled down here); a "generated" buffer
\* holds 2 * seq ids
seq == 2

\* params["n_vocab"] (50400 in the program, scaled down here): token ids are
\* 0 .. n_vocab - 1
n_vocab == 3

\* pad_token_id, itself an id of the vocabulary (50256 < 50400 in the program)
pad_token_id == n_vocab - 1

Ids == 0 .. n_vocab - 1
BufLen == 2 * seq
Positions == 0 .. BufLen - 1

\* ------------------------------------------------------------------ sampler configuration

\* A rational p is the pair <<numerator, denominator>>.
Rat(n, d) == <<n, d>>
One == Rat(1, 1)
IsOne(q) == q[1] = q[2]
LessThanOne(q) == q[1] < q[2]

\* a NaN where a rational is expected
NaNRat == Rat(0, 0)

\* np.int32(x) / jnp.int32(x) of a real x = n/d: truncation toward zero
Int32(q) == RDiv(q[1], q[2])

\* ------------------------------------------------------------------ repetition penalty

\* np.roll(np.arange(L) + (clipped_rprange - L), generated_index)[j]
penalty_arange(j, generated_index, rprange) ==
  LET clipped_rprange == IF rprange > 0 THEN rprange ELSE BufLen
  IN  ((j - generated_index) % BufLen) + (clipped_rprange - BufLen)

\* The slope formula for one position with penalty_arange value a, slope s
\* (already cast to int32) and range r: the effective penalty as a rational
\* <<en, ed>>, or NaNRat where the formula divides by 0 (r = 1).
\*   p = 2a/(r-1) - 1;  w = s*p / (1 + |p|*(s-1));  eff = 1 + ((w+1)/2)*(rp-1)
SlopePenalty(a, s, r, rp) ==
  LET d  == r - 1
      n  == 2 * a - d
      wn == s * n
      wd == d + Abs(n) * (s - 1)
  IN  IF d = 0 \/ wd <= 0 THEN NaNRat
      ELSE Rat(2 * wd * rp[2] + (wn + wd) * (rp[1] - rp[2]), 2 * wd * rp[2])

\* where(penalty_logits > 0, penalty_logits/rp, penalty_logits*rp) for one value
Penalize(x, eff) ==
  IF eff = NaNRat THEN NaN
  ELSE IF x # NaN /\ x > 0 THEN DivRat(x, eff[1], eff[2])
  ELSE MulRat(x, eff[1], eff[2])

\* penalty_logits[j]: the value position j of the buffer writes back to the
\* logit of its token
PenaltyLogit(logits, tokens, j, repetition_penalty, generated_index, rpslope, rprange) ==
  LET x   == logits[tokens[j]]
      a   == penalty_arange(j, generated_index, rprange)
      s   == Int32(rpslope)
      eff == IF s # 0 /\ rprange > 0
             THEN SlopePenalty(a, s, rprange, repetition_penalty)
             ELSE repetition_penalty
  IN  IF a >= 0 THEN Penalize(x, eff) ELSE x

\* The scatter logits[tokens] = penalty_logits.  Where an id occurs at several
\* positions, numpy keeps the write of the last one; jax's .at[].set applies
\* conflicting updates in an implementation-defined order, so any occurrence
\* may win.  The result is the set of logit vectors the scatter can leave.
PenaltyScatter(mode, logits, toks, pl) ==
  LET present == {toks[j] : j \in Positions}
      wins == {c \in [present -> Positions] :
                 \A t \in present :
                    /\ toks[c[t]] = t
                    /\ mode = "dynamic" => \A j \in Positions : toks[j] = t => j <= c[t]}
  IN  {[i \in DOMAIN logits |-> IF i \in present THEN pl[c[i]] ELSE logits[i]] : c \in wins}

\* apply_repetition_penalty_dynamic: ids are first clipped to n_vocab - 1
apply_repetition_penalty_dynamic(logits, tokens, repetition_penalty, generated_index, rpslope, rprange) ==
  LET toks == [j \in Positions |-> IF tokens[j] > n_vocab - 1 THEN n_vocab - 1 ELSE tokens[j]]
      pl == [j \in Positions |->
               PenaltyLogit(logits, toks, j, repetition_penalty, generated_index, rpslope, rprange)]
  IN  PenaltyScatter("dynamic", logits, toks, pl)

\* apply_repetition_penalty_static (ids of the buffer are ids of the vocabulary)
apply_repetition_penalty_static(logits, tokens, repetition_penalty, generated_index, rpslope, rprange) ==
  LET pl == [j \in Positions |->
               PenaltyLogit(logits, tokens, j, repetition_penalty, generated_index, rpslope, rprange)]
  IN  PenaltyScatter("static", logits, tokens, pl)

apply_repetition_penalty(mode, logits, tokens, cfg, generated_index) ==
  IF mode = "dynamic"
  THEN apply_repetition_penalty_dynamic(logits, tokens, cfg.repetition_penalty,
                                        generated_index, cfg.rpslope, cfg.rprange)
  ELSE apply_repetition_penalty_static(logits, tokens, cfg.repetition_penalty,
                                       generated_index, cfg.rpslope, cfg.rprange)

\* ------------------------------------------------------------------ one sampling step

\* logits[badwords] = -inf
MaskBadwords(logits, badwords) ==
  [i \in DOMAIN logits |-> IF i \in badwords THEN NegInf ELSE logits[i]]

\* np.isinf(logits).sum()
CountInf(logits) == Cardinality({i \in DOMAIN logits : logits[i] = NegInf})

\* the first-token rule without its test of the cursor
SuppressFires_AnyStep(logits, generated_index, stop_token) ==
  /\ stop_token >= 0
  /\ CountInf(logits) < Len0(logits) - 1

\* the condition of the first-token rule: first step of the call, a stop token
\* configured, fewer than size - 1 infinite logits
SuppressFires(logits, generated_index, stop_token) ==
  /\ generated_index = BufLen \div 2
  /\ stop_token >= 0
  /\ CountInf(logits) < Len0(logits) - 1

SuppressStop(logits, generated_index, stop_token) ==
  IF SuppressFires(logits, generated_index, stop_token)
  THEN [logits EXCEPT ![stop_token] = NegInf]
  ELSE logits

\* "if top_k > 0: logits = top_k_filter(logits)" and its lax.cond twin: the
\* set of vectors the stage can leave, one per admissible order of ties
TopKStage(mode, logits, top_k) ==
  IF top_k > 0
  THEN {top_k_filter(logits, top_k, p) : p \in Argsorts(mode, logits)}
  ELSE {logits}

\* "if top_p < 1.0: logits = top_p_filter(logits)"
TopPStage(mode, logits, top_p) ==
  IF LessThanOne(top_p)
  THEN {top_p_filter(logits, top_p[1], top_p[2], p) : p \in Argsorts(mode, logits)}
  ELSE {logits}

\* "if tfs < 1.0: logits = tail_free_filter(logits)"
TailFreeStage(mode, logits, tfs) ==
  IF LessThanOne(tfs)
  THEN {tail_free_filter(logits, tfs[1], tfs[2], p) : p \in Argsorts(mode, logits)}
  ELSE {logits}

\* The filters of kobold_sample_dynamic / kobold_sample_static up to and
\* including the temperature: the set of logit vectors they can leave.
\* Defined where tail_free_filter does not raise.
KoboldFilters(mode, logits, cfg) ==
  LET afterK == TopKStage(mode, logits, cfg.top_k)
      afterP == UNION {TopPStage(mode, l, cfg.top_p) : l \in afterK}
      afterT == UNION {TailFreeStage(mode, l, cfg.tfs) : l \in afterP}
  IN  {temp_filter(l, cfg.temp[1], cfg.temp[2]) : l \in afterT}

\* jax.random.categorical(key, logits) = argmax(logits + gumbel noise): any id
\* with a finite logit can win; a NaN wins over every number (the first one);
\* with no finite logit and no NaN every sum is -inf and argmax returns 0.
Categorical(logits) ==
  IF HasNaN(logits)
  THEN {CHOOSE i \in DOMAIN logits :
          logits[i] = NaN /\ \A j \in DOMAIN logits : logits[j] = NaN => i <= j}
  ELSE IF \E i \in DOMAIN logits : logits[i] # NegInf
  THEN {i \in DOMAIN logits : logits[i] # NegInf}
  ELSE {0}

\* the sampling step with the four filters first and the masking of badwords
\* and of the stop token after them
SampleOutcomes_FiltersFirst(mode, logits, generated, generated_index, cfg, badwords) ==
  UNION {
    UNION {
      LET banned == MaskBadwords(fin, badwords)
          supp   == SuppressStop(banned, generated_index, cfg.stop_token)
      IN  {[pen |-> pen, banned |-> banned, supp |-> supp, final |-> supp, token |-> t] :
              t \in Categorical(supp)}
      : fin \in KoboldFilters(mode, pen, cfg)}
    : pen \in apply_repetition_penalty(mode, logits, generated, cfg, generated_index)}

\* The body of sample_loop_fn (dynamic) and the sampling part of the static
\* generate_loop_fn for one slot: penalty, badwords, first-token rule, filters,
\* draw.  The set of records of what the step can compute.
SampleOutcomes(mode, logits, generated, generated_index, cfg, badwords) ==
  UNION {
    LET banned == MaskBadwords(pen, badwords)
        supp   == SuppressStop(banned, generated_index, cfg.stop_token)
    IN  UNION {
          {[pen |-> pen, banned |-> banned, supp |-> supp, final |-> fin, token |-> t] :
              t \in Categorical(fin)} : fin \in KoboldFilters(mode, supp, cfg)}
    : pen \in apply_repetition_penalty(mode, logits, generated, cfg, generated_index)}

\* ------------------------------------------------------------------ bounds and inputs

\* the largest numseqs a call is made with
MaxNumSeqs == 2

\* gen_len ranges over 0 .. MaxGenLen; one more than the buffer has room for
MaxGenLen == seq + 1

\* settings_callback() as the file defines it (top_p 0.9, temp 0.5, no top-k,
\* no tail-free, penalty 1.0), and the stop_token -1 both loops default to
DefaultSettings ==
  [top_p |-> Rat(9, 10), temp |-> Rat(1, 2), top_k |-> 0, tfs |-> One,
   repetition_penalty |-> One, rpslope |-> Rat(0, 1), rprange |-> 0,
   stop_token |-> -1]

\* The sampler configurations the loops are run with.
Settings ==
  {DefaultSettings,
   [DefaultSettings EXCEPT !.stop_token = 1],
   [DefaultSettings EXCEPT !.top_k = 2, !.top_p = One, !.temp = One,
                           !.repetition_penalty = Rat(2, 1), !.rprange = 1,
                           !.stop_token = 0],
   [DefaultSettings EXCEPT !.tfs = Rat(1, 2), !.top_p = One,
                           !.repetition_penalty = Rat(2, 1), !.rpslope = Rat(1, 1),
                           !.rprange = 3, !.stop_token = 1]}

\* vars.badwordsids: the ids never to be written
BadwordSets == {{}, {0}}

\* The rows of logits the Model returns: finite numbers.
ModelRows ==
  <<[i \in Ids |-> 2 * i - 2], [i \in Ids |-> 2 - 2 * i], [i \in Ids |-> 0]>>

\* transformer.generate_once(next_token, decode_state) with the network
\* parameters self.state: a function of its arguments.  The parameters are one
\* of Len(ModelRows) networks; the row returned depends on the id fed and on
\* how many ids the decode state has seen.
Networks == 0 .. Len(ModelRows) - 1
ModelLogits(params, next_token, decode_state) ==
  ModelRows[((params + next_token + Len(decode_state.fed)) % Len(ModelRows)) + 1]

\* What warper_callback can do to the batch of rows: leave it, leave only id 0
\* finite, or set every logit to -inf.
WarperKinds == {"keep", "only0", "none"}
Warp(kind, row) ==
  IF kind = "keep" THEN row
  ELSE [i \in DOMAIN row |-> IF kind = "only0" /\ i = 0 THEN row[i] ELSE NegInf]

\* A prompt left-padded with pad_token_id to seq ids; its last id is what
\* generate_initial hands to the first model call.
Contexts == {[j \in 0 .. seq - 1 |-> IF j = seq - 1 THEN t ELSE pad_token_id] : t \in 0 .. 1}

\* A prompt of seq ids, which needs no padding on the left.
FullContext == [j \in 0 .. seq - 1 |-> j % (n_vocab - 1)]

\* np.pad(context, (0, seq), constant_values=pad_token_id)
PadContext(context) ==
  [j \in Positions |-> IF j < seq THEN context[j] ELSE pad_token_id]

\* a split that hands the key back unchanged
Split_Reuse(key) == <<key, key>>

\* jax.random.split(key): the pair <<key used now, key carried forward>>
Split(key) == <<2 * key, 2 * key + 1>>

\* ------------------------------------------------------------------ state

VARIABLES
  mode,                 \* "dynamic" (generate_dynamic) or "static" (generate_static)
  state,                \* self.state: the network parameters
  pc,                   \* where the call is
  numseqs,
  gen_length,
  badwords,
  use_callback,
  cfg,                  \* sampler_options and penalty settings in force
  sample_key,
  carry,                \* static: the queue of slots of the while_loop
  generate_data,        \* dynamic: the queue of slots of generate_once
  sample_data,          \* dynamic: the queue of slots of sample_func
  gi,                   \* data[0][1] read when generate_once / sample_func starts
  n_generated,
  regeneration_required,
  halt,
  last,                 \* what the latest sampling step computed (history)
  events,               \* the collaborator calls of the call so far, in order (history)
  probe                 \* input and result of a filter or sampling step run on its own

loopVars ==
  <<mode, state, pc, numseqs, gen_length, badwords, use_callback, cfg, sample_key, carry,
    generate_data, sample_data, gi, n_generated, regeneration_required, halt, last, events>>

vars == <<loopVars, events, probe>>

NoProbe == [kind |-> "none"]

NoLogits == <<>>
NoStep == [slot |-> -1]

\* History of the calls made to the collaborators: which one ("model" is
\* transformer.generate_once, "warper" warper_callback, "settings"
\* settings_callback, "sample" the sampler with the write that follows it,
\* "stopping" stopping_callback), with what (the sequence for "model" and
\* "sample", the number of rows for "warper", n_generated for "stopping"),
\* and whether the call raised.
Event(call, arg) == [call |-> call, arg |-> arg, raised |-> FALSE]
Raised(call, arg) == [call |-> call, arg |-> arg, raised |-> TRUE]

\* What transformer.generate_once returns, as far as the assertions look at
\* it: the shape and the element type of the logits.  ModelShape and
\* ModelDtype are what the asserts of the two loops compare with.
ModelShape == <<1, n_vocab>>
ModelDtype == "float32"
ModelResults ==
  [shape : {ModelShape, <<n_vocab>>}, dtype : {ModelDtype, "bfloat16"}]

\* History of the latest sampling step: the slot, the cursor it wrote at, the
\* key it drew with, the id drawn, whether the first-token rule fired,
\* whether any logit was finite at the draw, the keys of all draws of the
\* call so far, this one last, and the shape and element type of the Model
\* result the logits came from.
StepRecord(slot, index, key, o, stop_token) ==
  [slot |-> slot, index |-> index, key |-> key, token |-> o.token,
   fired |-> SuppressFires(o.banned, index, stop_token),
   finite |-> \E i \in DOMAIN o.final : IsNumber(o.final[i]),
   keys |-> Append(IF last = NoStep THEN <<>> ELSE last.keys, key),
   result |-> [shape |-> ModelShape, dtype |-> ModelDtype]]

\* the queue left as it is
Rotate_Missing(q) == q

\* carry[0].append(carry[0].pop(0))
Rotate(q) == Append(Tail(q), Head(q))

\* The Model collaborator's decode state: whose it is and the ids fed so far.
InitialDecodeState(i, context) == [owner |-> i, fed |-> <<>>, context |-> context]
NextDecodeState(ds, token) == [ds EXCEPT !.fed = Append(ds.fed, token)]

\* ------------------------------------------------------------------ static mode

\* generate_static up to the while_loop: every slot starts from the same
\* context, with the buffer padded, the cursor at seq and the last context id
\* as next_token.
StaticInit ==
  /\ mode = "static"
  /\ state \in Networks
  /\ pc = "static_loop"
  /\ numseqs \in 1 .. MaxNumSeqs
  /\ gen_length \in 0 .. MaxGenLen
  /\ badwords \in BadwordSets
  /\ use_callback = FALSE
  /\ cfg \in Settings
  /\ sample_key = 1
  /\ \E context \in Contexts :
       carry = [i \in 1 .. numseqs |->
                  [generated |-> PadContext(context),
                   generated_index |-> seq,
                   sequence_index |-> i - 1,
                   next_token |-> context[seq - 1],
                   decode_state |-> InitialDecodeState(i - 1, context)]]
  /\ generate_data = <<>>
  /\ sample_data = <<>>
  /\ gi = seq
  /\ n_generated = 0
  /\ regeneration_required = FALSE
  /\ halt = FALSE
  /\ last = NoStep
  /\ events = <<>>
  /\ probe = NoProbe

\* cond_fun with <= for <
StaticCond_OffByOne(slot) ==
  /\ slot.generated_index - seq <= gen_length
  /\ slot.next_token # cfg.stop_token

\* the cond_fun of the while_loop, on the slot at the front of the queue
StaticCond(slot) ==
  /\ slot.generated_index - seq < gen_length
  /\ slot.next_token # cfg.stop_token

\* generated.at[generated_index].set(next_token): an index outside the buffer
\* drops the update
AtSet(generated, index, token) ==
  IF index \in DOMAIN generated THEN [generated EXCEPT ![index] = token] ELSE generated

\* One iteration of the static generate_loop_fn: model call, sampling, write,
\* rotation of the queue.
StaticStep ==
  /\ mode = "static" /\ pc = "static_loop"
  /\ StaticCond(Head(carry))
  /\ LET slot == Head(carry)
         keys == Split(sample_key)
         logits == ModelLogits(state, slot.next_token, slot.decode_state)
     IN  \E o \in SampleOutcomes("static", logits, slot.generated, slot.generated_index,
                                 cfg, badwords) :
           /\ carry' = Rotate([carry EXCEPT ![1] =
                 [generated |-> AtSet(slot.generated, slot.generated_index, o.token),
                  generated_index |-> slot.generated_index + 1,
                  sequence_index |-> slot.sequence_index,
                  next_token |-> o.token,
                  decode_state |-> NextDecodeState(slot.decode_state, slot.next_token)]])
           /\ sample_key' = keys[2]
           /\ last' = StepRecord(slot.sequence_index, slot.generated_index, keys[1], o,
                                  cfg.stop_token)
  /\ events' = events \o <<Event("model", Head(carry).sequence_index),
                          Event("sample", Head(carry).sequence_index)>>
  /\ UNCHANGED <<mode, state, pc, numseqs, gen_length, badwords, use_callback, cfg,
                 generate_data, sample_data, gi, n_generated, regeneration_required, halt, probe>>

\* An iteration of the static generate_loop_fn whose Model result has the
\* wrong shape: "assert logits.shape == (1, config["n_vocab"])" fails.
StaticShapeAssert ==
  /\ mode = "static" /\ pc = "static_loop"
  /\ StaticCond(Head(carry))
  /\ \E r \in ModelResults : r.shape # ModelShape
  /\ pc' = "error"
  /\ events' = Append(events, Event("model", Head(carry).sequence_index))
  /\ UNCHANGED <<mode, state, numseqs, gen_length, badwords, use_callback, cfg, sample_key, carry,
                 generate_data, sample_data, gi, n_generated, regeneration_required, halt, last, probe>>

\* An iteration of the static generate_loop_fn whose Model result has the
\* right shape and another element type: the shape is all this loop asserts,
\* so the iteration goes on as StaticStep does.
StaticStepAnyDtype ==
  /\ mode = "static" /\ pc = "static_loop"
  /\ StaticCond(Head(carry))
  /\ \E r \in ModelResults :
       /\ r.shape = ModelShape
       /\ r.dtype # ModelDtype
       /\ LET slot == Head(carry)
              keys == Split(sample_key)
              logits == ModelLogits(state, slot.next_token, slot.decode_state)
          IN  \E o \in SampleOutcomes("static", logits, slot.generated, slot.generated_index,
                                      cfg, badwords) :
                /\ carry' = Rotate([carry EXCEPT ![1] =
                      [generated |-> AtSet(slot.generated, slot.generated_index, o.token),
                       generated_index |-> slot.generated_index + 1,
                       sequence_index |-> slot.sequence_index,
                       next_token |-> o.token,
                       decode_state |-> NextDecodeState(slot.decode_state, slot.next_token)]])
                /\ sample_key' = keys[2]
                /\ last' = [StepRecord(slot.sequence_index, slot.generated_index, keys[1], o,
                                        cfg.stop_token) EXCEPT !.result = r]
  /\ events' = events \o <<Event("model", Head(carry).sequence_index),
                          Event("sample", Head(carry).sequence_index)>>
  /\ UNCHANGED <<mode, state, pc, numseqs, gen_length, badwords, use_callback, cfg,
                 generate_data, sample_data, gi, n_generated, regeneration_required, halt, probe>>

\* the while_loop ends when cond_fun is false for the slot at the front
StaticExit ==
  /\ mode = "static" /\ pc = "static_loop"
  /\ ~StaticCond(Head(carry))
  /\ pc' = "done"
  /\ UNCHANGED <<mode, state, numseqs, gen_length, badwords, use_callback, cfg, sample_key, carry,
                 generate_data, sample_data, gi, n_generated, regeneration_required, halt, last, events, probe>>

\* the slice taken up to seq + gen_length whatever the cursor
infer_static_FixedLength(o) ==
  LET stop == IF seq + gen_length < BufLen THEN seq + gen_length ELSE BufLen
  IN  [k \in 1 .. stop - seq |-> o.generated[seq + k - 1]]

\* infer_static, for one returned slot o: o[0][0, 0, seq : o[1][0, 0]], the
\* buffer from seq up to the slot's cursor; a slice stops at the end of the
\* buffer
infer_static(o) ==
  LET stop == IF o.generated_index < BufLen THEN o.generated_index ELSE BufLen
  IN  [k \in 1 .. stop - seq |-> o.generated[seq + k - 1]]

\* ------------------------------------------------------------------ dynamic mode

\* generate_dynamic up to its while loop: one buffer per sequence, padded, the
\* cursor at seq; generate_initial gives every slot its context's last id and
\* a fresh decode state.
DynamicInit ==
  /\ mode = "dynamic"
  /\ state \in Networks
  /\ pc = "generate_once"
  /\ numseqs \in 1 .. MaxNumSeqs
  /\ gen_length = seq
  /\ badwords \in BadwordSets
  /\ use_callback \in BOOLEAN
  /\ cfg = DefaultSettings
  /\ sample_key = 1
  /\ carry = <<>>
  /\ \E ctx \in [1 .. numseqs -> Contexts] :
       /\ sample_data = [i \in 1 .. numseqs |->
                           [generated |-> PadContext(ctx[i]),
                            generated_index |-> seq,
                            logits |-> NoLogits,
                            slot |-> i - 1]]
       /\ generate_data = [i \in 1 .. numseqs |->
                             [logits |-> NoLogits,
                              generated_index |-> seq,
                              sequence_index |-> i - 1,
                              next_token |-> ctx[i][seq - 1],
                              decode_state |-> InitialDecodeState(i - 1, ctx[i])]]
  /\ gi = seq
  /\ n_generated = 0
  /\ regeneration_required = FALSE
  /\ halt = FALSE
  /\ last = NoStep
  /\ events = <<>>
  /\ probe = NoProbe

\* One iteration of generate_once's generate_loop_fn: the model call for the
\* slot at the front, then the rotation.
GenerateOnceStep ==
  /\ mode = "dynamic" /\ pc = "generate_once"
  /\ Head(generate_data).generated_index = gi
  /\ LET slot == Head(generate_data)
     IN  generate_data' = Rotate([generate_data EXCEPT ![1] =
               [logits |-> ModelLogits(state, slot.next_token, slot.decode_state),
                generated_index |-> slot.generated_index + 1,
                sequence_index |-> slot.sequence_index,
                next_token |-> slot.next_token,
                decode_state |-> NextDecodeState(slot.decode_state, slot.next_token)]])
  /\ events' = Append(events, Event("model", Head(generate_data).sequence_index))
  /\ UNCHANGED <<mode, state, pc, numseqs, gen_length, badwords, use_callback, cfg, sample_key,
                 carry, sample_data, gi, n_generated, regeneration_required, halt, last, probe>>

\* An iteration of generate_once's generate_loop_fn whose Model result has
\* the wrong shape or the wrong element type: one of the two asserts fails.
GenerateOnceAssert ==
  /\ mode = "dynamic" /\ pc = "generate_once"
  /\ Head(generate_data).generated_index = gi
  /\ \E r \in ModelResults : r.shape # ModelShape \/ r.dtype # ModelDtype
  /\ pc' = "error"
  /\ events' = Append(events, Event("model", Head(generate_data).sequence_index))
  /\ UNCHANGED <<mode, state, numseqs, gen_length, badwords, use_callback, cfg, sample_key,
                 carry, generate_data, sample_data, gi, n_generated, regeneration_required,
                 halt, last, probe>>

\* transformer.generate_once raises inside generate_once_xmap: nothing in
\* generate_dynamic or infer_dynamic catches it
ModelRaises ==
  /\ mode = "dynamic" /\ pc = "generate_once"
  /\ Head(generate_data).generated_index = gi
  /\ events' = Append(events, Raised("model", Head(generate_data).sequence_index))
  /\ pc' = "raised"
  /\ UNCHANGED <<mode, state, numseqs, gen_length, badwords, use_callback, cfg, sample_key,
                 carry, generate_data, sample_data, gi, n_generated, regeneration_required,
                 halt, last, probe>>

\* CopyLogits going to settings_callback whatever use_callback is
CopyLogits_NoWarper ==
  /\ mode = "dynamic" /\ pc = "generate_once"
  /\ Head(generate_data).generated_index # gi
  /\ sample_data' = [i \in 1 .. numseqs |->
                       [sample_data[i] EXCEPT !.logits = generate_data[i].logits]]
  /\ pc' = "settings"
  /\ UNCHANGED <<mode, state, numseqs, gen_length, badwords, use_callback, cfg, sample_key,
                 carry, generate_data, gi, n_generated, regeneration_required, halt, last,
                 events, probe>>

\* generate_once returns; sample_data[i][2] = generate_data[i][0] for every i
CopyLogits ==
  /\ mode = "dynamic" /\ pc = "generate_once"
  /\ Head(generate_data).generated_index # gi
  /\ sample_data' = [i \in 1 .. numseqs |->
                       [sample_data[i] EXCEPT !.logits = generate_data[i].logits]]
  /\ pc' = IF use_callback THEN "warper" ELSE "settings"
  /\ UNCHANGED <<mode, state, numseqs, gen_length, badwords, use_callback, cfg, sample_key,
                 carry, generate_data, gi, n_generated, regeneration_required, halt, last, events, probe>>

\* logits = warper_callback(logits); sample_data[i][2] = logits[i]
WarperCallback ==
  /\ mode = "dynamic" /\ pc = "warper"
  /\ \E kind \in WarperKinds :
       sample_data' = [i \in 1 .. numseqs |->
                         [sample_data[i] EXCEPT !.logits = Warp(kind, sample_data[i].logits)]]
  /\ pc' = "settings"
  /\ events' = Append(events, Event("warper", numseqs))
  /\ UNCHANGED <<mode, state, numseqs, gen_length, badwords, use_callback, cfg, sample_key,
                 carry, generate_data, gi, n_generated, regeneration_required, halt, last, probe>>

\* warper_callback raises (as the one this file defines does): nothing
\* catches it
WarperRaises ==
  /\ mode = "dynamic" /\ pc = "warper"
  /\ events' = Append(events, Raised("warper", numseqs))
  /\ pc' = "raised"
  /\ UNCHANGED <<mode, state, numseqs, gen_length, badwords, use_callback, cfg, sample_key,
                 carry, generate_data, sample_data, gi, n_generated, regeneration_required,
                 halt, last, probe>>

\* sampler_options = settings_callback(), then the entry of sample_func
\* (gi = data[0][1])
SettingsCallback ==
  /\ mode = "dynamic" /\ pc = "settings"
  /\ cfg' \in Settings
  /\ gi' = Head(sample_data).generated_index
  /\ pc' = "sample"
  /\ events' = Append(events, Event("settings", 0))
  /\ UNCHANGED <<mode, state, numseqs, gen_length, badwords, use_callback, sample_key,
                 carry, generate_data, sample_data, n_generated, regeneration_required,
                 halt, last, probe>>

\* the logits array the slot keeps: sample_loop_fn changes it in place, and so
\* does "logits /= temp" when no filter has replaced the array
KeptLogits(o) ==
  IF cfg.top_k > 0 \/ LessThanOne(cfg.top_p) \/ LessThanOne(cfg.tfs) THEN o.supp ELSE o.final

\* One iteration of sample_loop_fn for the slot at the front.  Writing at an
\* index past the end of the numpy buffer raises IndexError.
SampleStep ==
  /\ mode = "dynamic" /\ pc = "sample"
  /\ Head(sample_data).generated_index = gi
  /\ LET slot == Head(sample_data)
         keys == Split(sample_key)
     IN  \E o \in SampleOutcomes("dynamic", slot.logits, slot.generated,
                                 slot.generated_index, cfg, badwords) :
           IF slot.generated_index \in DOMAIN slot.generated
           THEN /\ sample_data' = Rotate([sample_data EXCEPT ![1] =
                      [generated |-> [slot.generated EXCEPT ![slot.generated_index] = o.token],
                       generated_index |-> slot.generated_index + 1,
                       logits |-> KeptLogits(o),
                       slot |-> slot.slot]])
                /\ sample_key' = keys[2]
                /\ last' = StepRecord(slot.slot, slot.generated_index, keys[1], o,
                                      cfg.stop_token)
                /\ events' = Append(events, Event("sample", slot.slot))
                /\ pc' = pc
           ELSE /\ pc' = "error"
                /\ UNCHANGED <<sample_data, sample_key, last, events>>
  /\ UNCHANGED <<mode, state, numseqs, gen_length, badwords, use_callback, cfg,
                 carry, generate_data, gi, n_generated, regeneration_required, halt, probe>>

\* AfterSample going to stopping_callback whatever use_callback is
AfterSample_AlwaysStopping ==
  /\ mode = "dynamic" /\ pc = "sample"
  /\ Head(sample_data).generated_index # gi
  /\ n_generated' = n_generated + 1
  /\ generate_data' = [i \in 1 .. numseqs |->
        [generate_data[i] EXCEPT !.next_token =
            sample_data[i].generated[sample_data[i].generated_index - 1]]]
  /\ pc' = "stopping"
  /\ UNCHANGED <<mode, state, numseqs, gen_length, badwords, use_callback, cfg, sample_key,
                 carry, sample_data, gi, regeneration_required, halt, last, events, probe>>

\* AfterSample handing every sequence the id the first sequence wrote
AfterSample_FirstToken ==
  /\ mode = "dynamic" /\ pc = "sample"
  /\ Head(sample_data).generated_index # gi
  /\ n_generated' = n_generated + 1
  /\ generate_data' = [i \in 1 .. numseqs |->
        [generate_data[i] EXCEPT !.next_token =
            sample_data[1].generated[sample_data[1].generated_index - 1]]]
  /\ pc' = IF use_callback THEN "stopping" ELSE "done"
  /\ UNCHANGED <<mode, state, numseqs, gen_length, badwords, use_callback, cfg, sample_key,
                 carry, sample_data, gi, regeneration_required, halt, last, events, probe>>

\* AfterSample without "n_generated += 1"
AfterSample_NoCount ==
  /\ mode = "dynamic" /\ pc = "sample"
  /\ Head(sample_data).generated_index # gi
  /\ generate_data' = [i \in 1 .. numseqs |->
        [generate_data[i] EXCEPT !.next_token =
            sample_data[i].generated[sample_data[i].generated_index - 1]]]
  /\ pc' = IF use_callback THEN "stopping" ELSE "done"
  /\ UNCHANGED <<mode, state, numseqs, gen_length, badwords, use_callback, cfg, sample_key,
                 carry, sample_data, gi, n_generated, regeneration_required, halt, last, events, probe>>

\* sample_func returns; n_generated += 1; every generate_data[i] gets the id
\* its sample_data[i] just wrote as next_token
AfterSample ==
  /\ mode = "dynamic" /\ pc = "sample"
  /\ Head(sample_data).generated_index # gi
  /\ n_generated' = n_generated + 1
  /\ generate_data' = [i \in 1 .. numseqs |->
        [generate_data[i] EXCEPT !.next_token =
            sample_data[i].generated[sample_data[i].generated_index - 1]]]
  /\ pc' = IF use_callback THEN "stopping" ELSE "done"
  /\ UNCHANGED <<mode, state, numseqs, gen_length, badwords, use_callback, cfg, sample_key,
                 carry, sample_data, gi, regeneration_required, halt, last, events, probe>>

\* StoppingCallback breaking on halt only
StoppingCallback_HaltOnly ==
  /\ mode = "dynamic" /\ pc = "stopping"
  /\ regeneration_required' \in BOOLEAN
  /\ halt' \in BOOLEAN
  /\ pc' = IF halt' THEN "done" ELSE "generate_once"
  /\ gi' = Head(generate_data).generated_index
  /\ events' = Append(events, Event("stopping", n_generated))
  /\ UNCHANGED <<mode, state, numseqs, gen_length, badwords, use_callback, cfg, sample_key,
                 carry, generate_data, sample_data, n_generated, last, probe>>

\* excluded_world_info, regeneration_required, halt = stopping_callback(...);
\* break if either flag is set, else the next iteration (generate_once reads
\* gi = data[0][1])
StoppingCallback ==
  /\ mode = "dynamic" /\ pc = "stopping"
  /\ regeneration_required' \in BOOLEAN
  /\ halt' \in BOOLEAN
  /\ pc' = IF regeneration_required' \/ halt' THEN "done" ELSE "generate_once"
  /\ gi' = Head(generate_data).generated_index
  /\ events' = Append(events, Event("stopping", n_generated))
  /\ UNCHANGED <<mode, state, numseqs, gen_length, badwords, use_callback, cfg, sample_key,
                 carry, generate_data, sample_data, n_generated, last, probe>>

\* infer_dynamic, for one returned slot out: out[0][seq : seq + gen_len]; a
\* slice stops at the end of the buffer
infer_dynamic(out, gen_len) ==
  LET stop == IF seq + gen_len < BufLen THEN seq + gen_len ELSE BufLen
  IN  [k \in 1 .. stop - seq |-> out.generated[seq + k - 1]]

\* stopping_callback raising, the exception dropped and the loop going on
StoppingRaises_Swallowed ==
  /\ mode = "dynamic" /\ pc = "stopping"
  /\ events' = Append(events, Raised("stopping", n_generated))
  /\ pc' = "generate_once"
  /\ UNCHANGED <<mode, state, numseqs, gen_length, badwords, use_callback, cfg, sample_key,
                 carry, generate_data, sample_data, gi, n_generated, regeneration_required,
                 halt, last, probe>>

\* stopping_callback raises (as the one this file defines does): nothing
\* catches it
StoppingRaises ==
  /\ mode = "dynamic" /\ pc = "stopping"
  /\ events' = Append(events, Raised("stopping", n_generated))
  /\ pc' = "raised"
  /\ UNCHANGED <<mode, state, numseqs, gen_length, badwords, use_callback, cfg, sample_key,
                 carry, generate_data, sample_data, gi, n_generated, regeneration_required,
                 halt, last, probe>>

\* ------------------------------------------------------------------ specification

Init == StaticInit \/ DynamicInit

Next ==
  \/ StaticStep
  \/ StaticShapeAssert
  \/ StaticStepAnyDtype
  \/ StaticExit
  \/ GenerateOnceStep
  \/ GenerateOnceAssert
  \/ ModelRaises
  \/ CopyLogits
  \/ WarperCallback
  \/ WarperRaises
  \/ SettingsCallback
  \/ SampleStep
  \/ AfterSample
  \/ StoppingCallback
  \/ StoppingRaises

Spec == Init /\ [][Next]_vars

\* the static loop alone; the while_loop keeps iterating while its body or
\* its exit is possible
StaticNext == StaticStep \/ StaticExit

SpecStatic == StaticInit /\ [][StaticNext]_vars /\ WF_vars(StaticNext)

\* ------------------------------------------------------------------ a filter stage on its own

\* the longest logit vector a filter stage is run on
MaxVocab == 3

FilterScores == {NegInf, 0, 1, 3}

Thresholds == {Rat(1, 10), Rat(1, 2), Rat(9, 10), One}

\* no call of generate_dynamic / generate_static is in progress
LoopIdle ==
  /\ mode = "none"
  /\ state = 0
  /\ pc = "idle"
  /\ numseqs = 0
  /\ gen_length = 0
  /\ badwords = {}
  /\ use_callback = FALSE
  /\ cfg = DefaultSettings
  /\ sample_key = 1
  /\ carry = <<>>
  /\ generate_data = <<>>
  /\ sample_data = <<>>
  /\ gi = seq
  /\ n_generated = 0
  /\ regeneration_required = FALSE
  /\ halt = FALSE
  /\ last = NoStep
  /\ events = <<>>

\* a longer vector without ties
ScenarioScores == [i \in 0 .. 5 |-> <<1, 5, 2, 9, 0, 3>>[i + 1]]

FilterInit ==
  /\ LoopIdle
  /\ \E m \in {"dynamic", "static"} :
       \E l \in {ScenarioScores} \cup
                UNION {[0 .. V - 1 -> FilterScores] : V \in 1 .. MaxVocab} :
         probe = [kind |-> "filter_input", mode |-> m, logits |-> l]

Filtered(name, param, out, raised) ==
  [kind |-> "filtered", filter |-> name, mode |-> probe.mode, in |-> probe.logits,
   param |-> param, out |-> out, raised |-> raised]

\* the top-k stage of kobold_sample_dynamic / kobold_sample_static
ApplyTopK ==
  /\ probe.kind = "filter_input"
  /\ \E k \in 0 .. MaxVocab : \E out \in TopKStage(probe.mode, probe.logits, k) :
       probe' = Filtered("top_k", k, out, FALSE)
  /\ UNCHANGED loopVars

\* the top-p stage
ApplyTopP ==
  /\ probe.kind = "filter_input"
  /\ \E p \in Thresholds : \E out \in TopPStage(probe.mode, probe.logits, p) :
       probe' = Filtered("top_p", p, out, FALSE)
  /\ UNCHANGED loopVars

\* Whether the tail-free stage fails for a vector of length V.  The dynamic
\* sampler calls tail_free_filter only "if tfs < 1.0"; the static sampler
\* passes it to jax.lax.cond, which traces both branches whatever tfs is, so
\* there the failure of tail_free_filter is the failure of the stage.
TailFreeStageRaises(m, V, tfs) ==
  tail_free_raises(m, V) /\ (m = "static" \/ LessThanOne(tfs))

TailFreeStageMayRaise(m, V, tfs) ==
  tail_free_may_raise(m, V) /\ (m = "static" \/ LessThanOne(tfs))

\* the tail-free stage; where tail_free_filter raises nothing is returned
ApplyTailFree ==
  /\ probe.kind = "filter_input"
  /\ \E t \in Thresholds :
       LET V == Len0(probe.logits)
       IN  IF TailFreeStageRaises(probe.mode, V, t)
           THEN probe' = Filtered("tfs", t, probe.logits, TRUE)
           ELSE \/ \E out \in TailFreeStage(probe.mode, probe.logits, t) :
                     probe' = Filtered("tfs", t, out, FALSE)
                \/ /\ TailFreeStageMayRaise(probe.mode, V, t)
                   /\ probe' = Filtered("tfs", t, probe.logits, TRUE)
  /\ UNCHANGED loopVars

FilterNext == ApplyTopK \/ ApplyTopP \/ ApplyTailFree

SpecFilters == FilterInit /\ [][FilterNext]_vars

\* ------------------------------------------------------------------ a sampling step on its own

\* the logits a sampling step can be given
SamplerScores == {NegInf, -2, 2}

\* penalty settings beside those of Settings: a penalty over the whole buffer
\* (rprange 0), a slope that is not a whole number, a slope over the whole
\* buffer, and a slope over a range of one position
PenaltySettings ==
  {[DefaultSettings EXCEPT !.top_p = One, !.temp = One,
                           !.repetition_penalty = Rat(2, 1)],
   [DefaultSettings EXCEPT !.top_p = One, !.temp = One,
                           !.repetition_penalty = Rat(2, 1), !.rpslope = Rat(1, 2),
                           !.rprange = 3],
   [DefaultSettings EXCEPT !.top_p = One, !.temp = One,
                           !.repetition_penalty = Rat(2, 1), !.rpslope = Rat(1, 1)],
   [DefaultSettings EXCEPT !.top_p = One, !.temp = One,
                           !.repetition_penalty = Rat(2, 1), !.rpslope = Rat(1, 1),
                           !.rprange = 1]}

\* every stop_token with every configuration of Settings and PenaltySettings
SamplerSettings ==
  {[c EXCEPT !.stop_token = st] : c \in Settings \cup PenaltySettings, st \in -1 .. n_vocab - 1}

\* the buffers of a slot at its first step and at its second
SamplerBuffers ==
  {[generated |-> PadContext(c), generated_index |-> seq] : c \in Contexts \cup {FullContext}}
  \cup {[generated |-> [PadContext(c) EXCEPT ![seq] = t], generated_index |-> seq + 1] :
          c \in Contexts, t \in Ids}

\* The static loop samples from the Model's rows; sample_func samples from
\* what warper_callback returned, where any logit may be -inf.
SamplerInit ==
  /\ LoopIdle
  /\ \E m \in {"dynamic", "static"} :
     \E l \in [Ids -> SamplerScores] :
     \E b \in SamplerBuffers : \E c \in SamplerSettings : \E bw \in BadwordSets :
       /\ m = "static" => \A i \in Ids : l[i] # NegInf
       /\ probe = [kind |-> "sample_input", mode |-> m, logits |-> l,
                   generated |-> b.generated, generated_index |-> b.generated_index,
                   cfg |-> c, badwords |-> bw]

\* one run of sample_loop_fn's body / the sampling part of the static
\* generate_loop_fn
SampleProbe ==
  /\ probe.kind = "sample_input"
  /\ \E o \in SampleOutcomes(probe.mode, probe.logits, probe.generated,
                             probe.generated_index, probe.cfg, probe.badwords) :
       probe' = [kind |-> "sampled", in |-> probe, out |-> o]
  /\ UNCHANGED loopVars

SpecSampler == SamplerInit /\ [][SampleProbe]_vars

\* ================================================================== claims

StaticSlots == {carry[i] : i \in 1 .. Len(carry)}
SampleSlots == {sample_data[i] : i \in 1 .. Len(sample_data)}
GenerateSlots == {generate_data[i] : i \in 1 .. Len(generate_data)}

\* the slot of sequence k in the next state's static queue
NextStaticSlot(k) == CHOOSE n \in {carry'[i] : i \in 1 .. Len(carry')} : n.sequence_index = k
NextSampleSlot(k) == CHOOSE n \in {sample_data'[i] : i \in 1 .. Len(sample_data')} : n.slot = k

\* ------------------------------------------------------------------ C1

C1_AdvanceBound ==
  \A sl \in StaticSlots : sl.generated_index - seq <= gen_length

C1_NoAdvanceAfterStop ==
  \A sl \in StaticSlots :
     (sl.generated_index > seq /\ sl.next_token = cfg.stop_token)
        => NextStaticSlot(sl.sequence_index).generated_index = sl.generated_index

\* C1: in static mode the loop terminates, no sequence is advanced more than
\* gen_length steps, and a sequence whose last generated id is the stop token
\* is never advanced again.
C1_StaticTerminates ==
  /\ <>(pc = "done")
  /\ []C1_AdvanceBound
  /\ [][C1_NoAdvanceAfterStop]_vars

\* a finished run of two sequences in which one stopped on the stop token
\* before using up gen_length
C1_Witness ==
  /\ mode = "static" /\ pc = "done" /\ numseqs = 2
  /\ \E sl \in StaticSlots :
       /\ sl.generated_index > seq
       /\ sl.generated_index - seq < gen_length
       /\ sl.next_token = cfg.stop_token

\* ------------------------------------------------------------------ C2

\* C2: when the static loop of two or more sequences exits, every sequence
\* has generated gen_length ids or has the stop token as its last id (a stop
\* token of one sequence does not cut another sequence short).
C2_OwnTerminationPredicate ==
  (mode = "static" /\ pc = "done" /\ numseqs >= 2)
     => \A sl \in StaticSlots :
           \/ sl.generated_index - seq >= gen_length
           \/ sl.next_token = cfg.stop_token

\* ------------------------------------------------------------------ C3

\* C3: in both loops the write cursor of a sequence never exceeds the
\* capacity of its buffer.
C3_CursorWithinCapacity ==
  \A sl \in StaticSlots \cup SampleSlots : sl.generated_index <= Len0(sl.generated)

\* ------------------------------------------------------------------ C4

\* a step of one buffer: untouched, or the accepted id written at the cursor,
\* the cursor one further and every other entry as before
C4_BufferStep(gen, idx, gen2, idx2, accepted) ==
  \/ gen2 = gen /\ idx2 = idx
  \/ /\ idx2 = idx + 1
     /\ idx \in DOMAIN gen
     /\ gen2[idx] = accepted
     /\ \A k \in DOMAIN gen : k # idx => gen2[k] = gen[k]

C4_Steps ==
  /\ \A sl \in StaticSlots :
       LET n == NextStaticSlot(sl.sequence_index)
       IN  C4_BufferStep(sl.generated, sl.generated_index, n.generated, n.generated_index,
                         n.next_token)
  /\ \A sl \in SampleSlots :
       LET n == NextSampleSlot(sl.slot)
       IN  C4_BufferStep(sl.generated, sl.generated_index, n.generated, n.generated_index,
                         last'.token)

C4_PadFromCursor ==
  \A sl \in StaticSlots \cup SampleSlots :
     /\ sl.generated_index >= seq
     /\ \A k \in DOMAIN sl.generated : k >= sl.generated_index => sl.generated[k] = pad_token_id

\* C4: in both loops the cursor starts at seq, every accepted id is written
\* at the cursor and moves the cursor by one, entries below the cursor never
\* change, and every entry at or after the cursor is pad_token_id.
C4_CursorDiscipline ==
  /\ []C4_PadFromCursor
  /\ [][C4_Steps]_vars

\* ------------------------------------------------------------------ C5

C5_StaticLockStep ==
  \A a \in StaticSlots : \A b \in StaticSlots : a.generated_index <= b.generated_index + 1

C5_DynamicLockStep ==
  /\ \A a \in SampleSlots : \A b \in SampleSlots : a.generated_index <= b.generated_index + 1
  /\ \A a \in GenerateSlots : \A b \in GenerateSlots : a.generated_index <= b.generated_index + 1
  \* the model call of step n+1 comes after every sequence sampled step n
  /\ \A g \in GenerateSlots : \A sl \in SampleSlots : g.generated_index <= sl.generated_index + 1
  \* the sampling of step n comes after every sequence's model call of step n
  /\ \A g \in GenerateSlots : \A sl \in SampleSlots : sl.generated_index <= g.generated_index
  \* at a step boundary every sequence has n_generated ids
  /\ pc \in {"stopping", "done"} =>
        \A sl \in SampleSlots : sl.generated_index = seq + n_generated

\* C5: no sequence begins step n+1 before every sequence has completed step
\* n, so the numbers of ids of two sequences differ by at most one and are
\* equal at the step boundaries of dynamic mode.
C5_LockStep ==
  /\ mode = "static" => C5_StaticLockStep
  /\ mode = "dynamic" => C5_DynamicLockStep

\* in the middle of a step of two sequences: one has sampled, the other not
C5_Witness ==
  /\ mode = "dynamic" /\ numseqs = 2 /\ pc = "sample" /\ n_generated = 1
  /\ \E a \in SampleSlots : \E b \in SampleSlots : a.generated_index = b.generated_index + 1

\* ------------------------------------------------------------------ C6

\* a step from "stopping" in which stopping_callback returned (it did not raise)
C6_StoppingDecides ==
  IF pc = "stopping" /\ pc' # "raised"
  THEN IF regeneration_required' \/ halt'
       THEN pc' = "done"
       ELSE pc' = "generate_once" /\ n_generated' = n_generated
  ELSE regeneration_required' = regeneration_required /\ halt' = halt

\* C6: with callbacks the loop stops after a step iff stopping_callback set
\* regeneration_required or halt for it, goes on to the next step otherwise,
\* and the flags it returns are those of the last stopping_callback call.
C6_StopIffFlag ==
  /\ []((mode = "dynamic" /\ use_callback /\ pc = "done") => (regeneration_required \/ halt))
  /\ [][C6_StoppingDecides]_vars

\* the loop went on after step 1 and stopped after step 2 on
\* regeneration_required alone
C6_Witness ==
  /\ mode = "dynamic" /\ use_callback /\ pc = "done"
  /\ regeneration_required /\ ~halt /\ n_generated = 2

\* ------------------------------------------------------------------ C7

\* C7 (as claimed): when the loop stops on regeneration_required, the
\* returned buffers and step count do not hold the ids of the last step.
C7_RegenerationDropsStep ==
  (mode = "dynamic" /\ pc = "done" /\ regeneration_required)
     => /\ n_generated = last.index - seq
        /\ \A sl \in SampleSlots :
              /\ sl.generated_index = last.index
              /\ sl.generated[last.index] = pad_token_id

\* C7 (amended): when the loop stops on regeneration_required, the returned
\* buffers and step count include the last step for every sequence: each
\* buffer holds n_generated ids, the last of them the id sampled in that step.
C7_RegenerationKeepsStep ==
  (mode = "dynamic" /\ pc = "done" /\ regeneration_required)
     => /\ n_generated = last.index - seq + 1
        /\ \A i \in 1 .. numseqs :
              /\ sample_data[i].generated_index = seq + n_generated
              /\ sample_data[i].generated[last.index] = generate_data[i].next_token
              /\ sample_data[i].slot = last.slot
                    => sample_data[i].generated[last.index] = last.token

\* stopped on regeneration_required after the first step of two sequences,
\* with a sampled id other than the pad in a returned buffer
C7_Witness ==
  /\ mode = "dynamic" /\ pc = "done" /\ regeneration_required /\ numseqs = 2
  /\ n_generated = 1
  /\ \E sl \in SampleSlots : sl.generated[seq] # pad_token_id

\* ------------------------------------------------------------------ C8

\* C8: the id a sampling step emits is never one of badwords.
C8_NeverBanned ==
  last # NoStep => last.token \notin badwords

\* ------------------------------------------------------------------ C9

\* C9: for every logit vector of every size from 1 up, the top-p stage and
\* the tail-free stage return a vector in which an id with the highest logit
\* of the input has kept its logit.
C9_TopSurvives ==
  (probe.kind = "filtered" /\ probe.filter \in {"top_p", "tfs"})
     => /\ ~probe.raised
        /\ \E i \in DOMAIN probe.in :
              /\ \A j \in DOMAIN probe.in : probe.in[j] <= probe.in[i]
              /\ probe.out[i] = probe.in[i]

\* ------------------------------------------------------------------ C10

C10_TwoFinite(logits) ==
  \E i \in DOMAIN logits : \E j \in DOMAIN logits :
     i # j /\ logits[i] # NegInf /\ logits[j] # NegInf

C10_RuleApplies ==
  /\ probe.in.generated_index = seq
  /\ probe.in.cfg.stop_token >= 0
  /\ C10_TwoFinite(probe.out.banned)

C11_NoEmptyGeneration ==
  (mode = "static" /\ pc = "done" /\ gen_length >= 1 /\ cfg.stop_token >= 0)
     => \A sl \in StaticSlots : sl.generated_index > seq

\* ------------------------------------------------------------------ C13

C13_DrawKeysDistinct ==
  last # NoStep =>
     /\ \A i \in DOMAIN last.keys : \A j \in DOMAIN last.keys :
           i # j => last.keys[i] # last.keys[j]
     /\ \A i \in DOMAIN last.keys : last.keys[i] # sample_key

C13_SplitStep ==
  last' # last =>
     /\ last'.key # sample_key'
     /\ last'.key # sample_key
     /\ sample_key' # sample_key

\* C13: within one call no two draws, of any step or sequence, use the same
\* key; a slot step splits the carried key into the key of its draw and a
\* different key carried forward, and a key used for a draw is never the
\* carried key again.
C13_NoKeyReuse ==
  /\ []C13_DrawKeysDistinct
  /\ [][C13_SplitStep]_vars

\* the fourth draw of a call of two sequences
C13_Witness ==
  /\ last # NoStep /\ numseqs = 2
  /\ Len(last.keys) = 4

\* ------------------------------------------------------------------ C14

\* the ids whose logit the stage left as it was, when all others are -inf
C14_Kept(K) ==
  /\ \A i \in K : probe.out[i] = probe.in[i]
  /\ \A i \in DOMAIN probe.in \ K : probe.out[i] = NegInf
  /\ \A i \in K : \A j \in DOMAIN probe.in \ K : probe.in[i] >= probe.in[j]

\* C14: for a vector of length V and k > 0, top-k leaves exactly min(k, V)
\* entries with their logit and sets every other entry to -inf, and every
\* kept logit is >= every removed one.
C14_TopKKeepsK ==
  (probe.kind = "filtered" /\ probe.filter = "top_k" /\ probe.param > 0)
     => LET V == Len0(probe.in)
            n == IF probe.param < V THEN probe.param ELSE V
        IN  /\ ~probe.raised
            /\ \E K \in SUBSET (DOMAIN probe.in) : Cardinality(K) = n /\ C14_Kept(K)

\* logits [1,5,2,9,0,3] with k = 3: exactly the ids 3, 1 and 5 are kept
C14_Witness ==
  /\ probe.kind = "filtered" /\ probe.filter = "top_k" /\ probe.param = 3
  /\ probe.in = ScenarioScores
  /\ probe.out = [i \in 0 .. 5 |-> IF i \in {1, 3, 5} THEN ScenarioScores[i] ELSE NegInf]

\* ------------------------------------------------------------------ C15

C15_Neutral ==
  \/ probe.filter = "top_k" /\ probe.param = 0
  \/ probe.filter = "top_p" /\ IsOne(probe.param)
  \/ probe.filter = "tfs" /\ IsOne(probe.param)

\* C15: in both samplers the top-k stage with k = 0, the top-p stage with
\* p = 1.0 and the tail-free stage with tfs = 1.0 return the logit vector
\* unchanged, for every vector.
C15_NeutralIsIdentity ==
  (probe.kind = "filtered" /\ C15_Neutral)
     => ~probe.raised /\ probe.out = probe.in

\* ------------------------------------------------------------------ C16

\* the penalty scope as specified: the R positions before the cursor, with
\* R = rprange if rprange > 0 else the length of the buffer
C16_ScopeRange(rprange) == IF rprange > 0 THEN rprange ELSE BufLen
C16_InScope(j, cursor, rprange) == cursor - C16_ScopeRange(rprange) <= j /\ j < cursor

\* x / p for x > 0, x * p otherwise, p = a rational
C16_Penalized(x, p) ==
  IF x = NegInf THEN NegInf
  ELSE IF x > 0 THEN RDiv(x * p[2], p[1]) ELSE RDiv(x * p[1], p[2])

\* C16: with rpslope = 0 and a penalty > 1, an id that occurs at an in-scope
\* position of the buffer ends with logit / penalty if its logit was > 0 and
\* logit * penalty otherwise, wherever else in the buffer it occurs; an id
\* that occurs nowhere in the buffer keeps its logit.
C16_PenaltyOfInScopeIds ==
  (/\ probe.kind = "sampled"
   /\ probe.in.cfg.rpslope[1] = 0
   /\ probe.in.cfg.repetition_penalty[1] > probe.in.cfg.repetition_penalty[2])
     => \A t \in Ids :
          LET at == {j \in Positions : probe.in.generated[j] = t}
          IN  /\ (\E j \in at : C16_InScope(j, probe.in.generated_index, probe.in.cfg.rprange))
                    => probe.out.pen[t] = C16_Penalized(probe.in.logits[t], probe.in.cfg.repetition_penalty)
              /\ at = {} => probe.out.pen[t] = probe.in.logits[t]

\* ------------------------------------------------------------------ C17

\* C17: a position of the buffer is in penalty scope exactly when it is one
\* of the R positions before the cursor (R = rprange if rprange > 0 else the
\* length of the buffer); positions at or after the cursor and positions
\* more than R before it are out of scope, and an id that occurs only at
\* out-of-scope positions keeps its logit.
C17_ScopeIsRecentPositions ==
  probe.kind = "sampled" =>
     LET cursor == probe.in.generated_index
         rprange == probe.in.cfg.rprange
     IN  /\ \A j \in Positions :
               penalty_arange(j, cursor, rprange) >= 0 <=> C16_InScope(j, cursor, rprange)
         /\ \A t \in Ids :
               (\A j \in Positions : probe.in.generated[j] = t => ~C16_InScope(j, cursor, rprange))
                  => probe.out.pen[t] = probe.in.logits[t]

\* ------------------------------------------------------------------ C18

\* the slope formula as specified, for the real slope s = <<sn, sd>>, at
\* offset a of a range of r positions:
\*   p = 2a/(r-1) - 1;  w = s*p / (1 + |p|*(s-1));  1 + ((w+1)/2)*(rp-1)
C18_SlopeFormula(a, s, r, rp) ==
  LET d  == r - 1
      n  == 2 * a - d
      wn == s[1] * n
      wd == d * s[2] + Abs(n) * (s[1] - s[2])
  IN  Rat(2 * wd * rp[2] + (wn + wd) * (rp[1] - rp[2]), 2 * wd * rp[2])

\* the effective penalty as specified for the in-scope position j
C18_EffectivePenalty(j, cursor, c) ==
  LET R == C16_ScopeRange(c.rprange)
  IN  IF c.rpslope[1] = 0 THEN c.repetition_penalty
      ELSE C18_SlopeFormula(R - (cursor - j), c.rpslope, R, c.repetition_penalty)

\* C18: the effective penalty of an in-scope position is repetition_penalty
\* when rpslope = 0, and the slope formula of its offset, with the real
\* rpslope and the effective range R, whenever rpslope # 0 (seen on the ids
\* that occur once in the buffer, at an in-scope position).
C18_SlopeExactlyWhenNonzero ==
  probe.kind = "sampled" =>
     \A t \in Ids : \A j \in Positions :
        (/\ {k \in Positions : probe.in.generated[k] = t} = {j}
         /\ C16_InScope(j, probe.in.generated_index, probe.in.cfg.rprange))
           => probe.out.pen[t] =
                 C16_Penalized(probe.in.logits[t],
                               C18_EffectivePenalty(j, probe.in.generated_index, probe.in.cfg))

\* ------------------------------------------------------------------ C19

\* the ids sampled for a sequence so far, oldest first: what the Model was fed
\* after the context's last id, then the id waiting to be fed
C19_Sampled(ds, next_token) ==
  IF ds.fed = <<>> THEN <<>> ELSE Append(Tail(ds.fed), next_token)

\* the sample of a static slot is the ids sampled for that sequence, in
\* order, as far as the buffer holds them
C19_StaticSample ==
  (mode = "static" /\ pc = "done") =>
     \A i \in 1 .. numseqs :
        LET s == infer_static(carry[i])
            h == C19_Sampled(carry[i].decode_state, carry[i].next_token)
        IN  /\ Len(h) = carry[i].generated_index - seq
            /\ Len(s) = (IF Len(h) < seq THEN Len(h) ELSE seq)
            /\ \A k \in 1 .. Len(s) : s[k] = h[k]

\* the sample of a dynamic slot has gen_len entries (as many as the buffer
\* has after seq): the ids sampled for that sequence in order, then padding,
\* whatever n_generated is
C19_DynamicSample ==
  (mode = "dynamic" /\ pc = "done") =>
     \A i \in 1 .. numseqs : \A gen_len \in 0 .. MaxGenLen :
        LET s == infer_dynamic(sample_data[i], gen_len)
            h == C19_Sampled(generate_data[i].decode_state, generate_data[i].next_token)
        IN  /\ sample_data[i].slot = generate_data[i].sequence_index
            /\ Len(h) = n_generated
            /\ Len(s) = (IF gen_len < seq THEN gen_len ELSE seq)
            /\ \A k \in 1 .. Len(s) :
                  s[k] = IF k <= n_generated THEN h[k] ELSE pad_token_id

\* C19: when a call returns, infer_dynamic's sample of a sequence is the
\* buffer from seq to seq + gen_len whatever number of steps ran (sampled ids,
\* then padding), and infer_static's sample of a sequence is the buffer from
\* seq to that sequence's cursor: only ids sampled for that sequence, in
\* generation order, none of the padding.
C19_SamplesAreSlices == C19_StaticSample /\ C19_DynamicSample

\* a static call of two sequences that stopped on the stop token before
\* gen_length ids: a sample shorter than gen_length and not empty
C19_Witness ==
  /\ mode = "static" /\ pc = "done" /\ numseqs = 2
  /\ \E i \in 1 .. numseqs :
       /\ Len(infer_static(carry[i])) \in 1 .. gen_length - 1
       /\ carry[i].next_token = cfg.stop_token

\* ------------------------------------------------------------------ C20

\* every Model result a token was sampled from had the shape and the element
\* type the loops expect
C20_SampledFromConforming ==
  last # NoStep => (last.result.shape = ModelShape /\ last.result.dtype = ModelDtype)

\* a failed assertion ends the call: nothing runs after it
C20_NotRetried == [][pc # "error"]_vars

\* C20: in both modes a Model result of another shape than (1, n_vocab) or of
\* another element type than float32 ends the call with a failed assertion
\* before an id is sampled from it, and the call is not tried again.
C20_ContractAsserted == []C20_SampledFromConforming /\ C20_NotRetried

\* ------------------------------------------------------------------ C21

\* C21: in dynamic mode, when the Model, warper_callback or stopping_callback
\* raises, that call is the last thing the loop does: no collaborator is
\* called after it, and the call never returns its samples (it is never
\* "done").
C21_RaiseEndsCall ==
  \A k \in 1 .. Len(events) :
     events[k].raised => (k = Len(events) /\ pc = "raised" /\ mode = "dynamic")

\* stopping_callback raised in the second outer iteration
C21_Witness ==
  /\ pc = "raised" /\ n_generated = 2 /\ numseqs = 2
  /\ events[Len(events)] = Raised("stopping", 2)

\* ------------------------------------------------------------------ C22

\* the draw had nothing to draw from: no logit was a finite number
C22_NothingToDraw(o) == \A i \in DOMAIN o.final : ~IsNumber(o.final[i])

\* C22: a sampling step whose logits are all non-finite at the draw does not
\* emit an id of the vocabulary as its sampled token.
C22_NoTokenFromNothing ==
  (probe.kind = "sampled" /\ C22_NothingToDraw(probe.out)) => probe.out.token \notin Ids

\* ------------------------------------------------------------------ C23

\* what the draw would be given if the penalised logits went through top-k,
\* top-p, tail-free and temperature first and the masking of badwords and of
\* the stop token came last
C23_FilteredThenMasked(in, pen) ==
  {SuppressStop(MaskBadwords(f, in.badwords), in.generated_index, in.cfg.stop_token) :
     f \in KoboldFilters(in.mode, pen, in.cfg)}

\* C23 as stated: in every sampling step the stages run in the order top-k,
\* top-p, tail-free, temperature, masking of badwords, first-step stop
\* suppression, draw; the two maskings act on what the four filters left.
C23_FiltersThenMasks ==
  probe.kind = "sampled" =>
     /\ probe.out.final \in C23_FilteredThenMasked(probe.in, probe.out.pen)
     /\ probe.out.token \in Categorical(probe.out.final)

\* C23 amended: in every sampling step the stages run in the order penalty,
\* masking of badwords, first-step stop suppression, top-k, top-p, tail-free,
\* temperature, draw; the four filters act on what the two maskings left.
C23_MasksThenFilters ==
  probe.kind = "sampled" =>
     LET in == probe.in
         o  == probe.out
     IN  /\ o.pen \in apply_repetition_penalty(in.mode, in.logits, in.generated, in.cfg,
                                                in.generated_index)
         /\ o.banned = MaskBadwords(o.pen, in.badwords)
         /\ o.supp = SuppressStop(o.banned, in.generated_index, in.cfg.stop_token)
         /\ \E a \in TopKStage(in.mode, o.supp, in.cfg.top_k) :
            \E b \in TopPStage(in.mode, a, in.cfg.top_p) :
            \E c \in TailFreeStage(in.mode, b, in.cfg.tfs) :
               o.final = temp_filter(c, in.cfg.temp[1], in.cfg.temp[2])
         /\ o.token \in Categorical(o.final)

\* a step where the order shows: top-k 2 with id 0 in badwords and three
\* finite logits; two ids are left to draw from, which no run of the filters
\* before the masking gives
C23_Witness ==
  /\ probe.kind = "sampled"
  /\ probe.in.cfg.top_k = 2 /\ probe.in.badwords = {0}
  /\ \A i \in Ids : IsNumber(probe.in.logits[i])
  /\ Cardinality({i \in Ids : IsNumber(probe.out.final[i])}) = 2
  /\ probe.out.final \notin C23_FilteredThenMasked(probe.in, probe.out.pen)

\* ------------------------------------------------------------------ C24

\* one call of a collaborator per sequence, in the order of the sequences
C24_PerSequence(call) == [i \in 1 .. numseqs |-> Event(call, i - 1)]

\* the calls of outer iteration n with callbacks: the Model for every
\* sequence, warper_callback on all rows, settings_callback, the sampling of
\* every sequence, stopping_callback with n
C24_Iteration(n) ==
  C24_PerSequence("model") \o <<Event("warper", numseqs), Event("settings", 0)>>
    \o C24_PerSequence("sample") \o <<Event("stopping", n)>>

RECURSIVE C24_Iterations(_)
C24_Iterations(n) == IF n = 0 THEN <<>> ELSE C24_Iterations(n - 1) \o C24_Iteration(n)

C24_IsPrefix(a, b) == Len(a) <= Len(b) /\ \A k \in 1 .. Len(a) : a[k] = b[k]

\* as long as no collaborator raised, the calls made so far are the complete
\* iterations 1 .. n_generated and a part of the next, and a call that
\* returned made complete iterations only; when stopping_callback is reached
\* every sequence has n_generated ids
C24_DynamicCalls ==
  (mode = "dynamic" /\ use_callback /\ \A k \in 1 .. Len(events) : ~events[k].raised) =>
     /\ C24_IsPrefix(events, C24_Iterations(n_generated + 1))
     /\ pc = "done" => events = C24_Iterations(n_generated)
     /\ pc = "stopping" =>
           /\ Len(events) = Len(C24_Iterations(n_generated)) - 1
           /\ \A i \in 1 .. numseqs : sample_data[i].generated_index = seq + n_generated

\* the static loop calls the Model and samples, nothing else
C24_StaticCalls ==
  mode = "static" => \A k \in 1 .. Len(events) : events[k].call \in {"model", "sample"}

\* the settings read by settings_callback stay the same while the sequences
\* of the step are sampled
C24_OneSnapshot == pc = "sample" => cfg' = cfg

\* C24: every outer iteration of dynamic mode with callbacks makes its calls
\* in this order: the Model once per sequence, warper_callback once on all
\* rows, settings_callback once (its result used for every sequence of the
\* step), one sampling and write per sequence, then stopping_callback once,
\* after every sequence has written, with the number of ids written to each;
\* static mode calls neither warper_callback nor stopping_callback.
C24_CallOrder ==
  /\ [](C24_DynamicCalls /\ C24_StaticCalls)
  /\ [][C24_OneSnapshot]_vars

\* a call of two sequences with callbacks that returned after two iterations
C24_Witness ==
  /\ mode = "dynamic" /\ use_callback /\ pc = "done" /\ numseqs = 2 /\ n_generated = 2
  /\ events = C24_Iterations(2)

\* ------------------------------------------------------------------ C25

\* A decode state ds and the id next_token waiting to be fed belong to the
\* sequence sequence_index whose buffer is generated: the decode state was
\* made for that sequence from that buffer's context, it has been fed the
\* context's last id and then the ids written to that buffer, one per Model
\* call and in the order they were written, and the id waiting is the one
\* written last once every call made has been sampled from (fresh).
C25_Own(ds, next_token, sequence_index, calls, generated, fresh) ==
  /\ ds.owner = sequence_index
  /\ ds.context = [j \in 0 .. seq - 1 |-> generated[j]]
  /\ Len(ds.fed) = calls
  /\ \A k \in 1 .. calls :
        seq + k - 2 \in DOMAIN generated => ds.fed[k] = generated[seq + k - 2]
  /\ (fresh /\ seq + calls - 1 \in DOMAIN generated) => next_token = generated[seq + calls - 1]

C25_Static ==
  mode = "static" =>
     \A i \in 1 .. numseqs :
        C25_Own(carry[i].decode_state, carry[i].next_token, carry[i].sequence_index,
                carry[i].generated_index - seq, carry[i].generated, TRUE)

C25_Dynamic ==
  mode = "dynamic" =>
     \A i \in 1 .. numseqs : \A j \in 1 .. numseqs :
        generate_data[i].sequence_index = sample_data[j].slot =>
           C25_Own(generate_data[i].decode_state, generate_data[i].next_token,
                   generate_data[i].sequence_index, generate_data[i].generated_index - seq,
                   sample_data[j].generated,
                   pc \in {"generate_once", "stopping", "done"}
                     /\ generate_data[i].generated_index = sample_data[j].generated_index)

\* C25: in both modes, the id and the decode state given to the Model at step
\* n + 1 of a sequence are the id sampled for that sequence at step n and the
\* decode state its Model call of step n returned; no id, buffer or decode
\* state of one sequence is used for another.
C25_OwnTokenAndState == C25_Static /\ C25_Dynamic

\* two sequences with different contexts that wrote different ids in step 1
\* and have both been through the Model call of step 2
C25_Witness ==
  /\ mode = "dynamic" /\ numseqs = 2 /\ pc = "sample" /\ n_generated = 1
  /\ sample_data[1].generated[seq - 1] # sample_data[2].generated[seq - 1]
  /\ sample_data[1].generated[seq] # sample_data[2].generated[seq]
  /\ \A i \in 1 .. numseqs : Len(generate_data[i].decode_state.fed) = 2

\* ------------------------------------------------------------------ C26

\* the number of single-slot steps a queue has been through
RECURSIVE C26_Steps(_)
C26_Steps(q) ==
  IF q = <<>> THEN 0 ELSE (Head(q).generated_index - seq) + C26_Steps(Tail(q))

\* the queue q, whose slots are named by IdOf, is the original queue rotated
\* once per step: every slot is there once, the front slot has a minimal step
\* count, and after a multiple of numseqs steps the order is the original
C26_Rotated(q, IdOf(_)) ==
  /\ Len(q) = numseqs
  /\ \A i \in 1 .. numseqs : IdOf(q[i]) = (i - 1 + C26_Steps(q)) % numseqs
  /\ \A i \in 1 .. numseqs : q[1].generated_index <= q[i].generated_index

\* a single-slot step from q to q2 took the front slot, advanced it by one and
\* put it at the back, and moved every other slot one place forward unchanged
C26_SlotStep(q, q2, IdOf(_)) ==
  C26_Steps(q2) # C26_Steps(q) =>
     /\ IdOf(q2[numseqs]) = IdOf(q[1])
     /\ q2[numseqs].generated_index = q[1].generated_index + 1
     /\ \A i \in 1 .. numseqs - 1 : q2[i] = q[i + 1]

C26_SequenceIndex(slot) == slot.sequence_index
C26_Slot(slot) == slot.slot

C26_Queues ==
  /\ mode = "static" => C26_Rotated(carry, C26_SequenceIndex)
  /\ mode = "dynamic" => /\ C26_Rotated(generate_data, C26_SequenceIndex)
                         /\ C26_Rotated(sample_data, C26_Slot)

C26_Step ==
  /\ mode = "static" => C26_SlotStep(carry, carry', C26_SequenceIndex)
  /\ mode = "dynamic" => /\ C26_SlotStep(generate_data, generate_data', C26_SequenceIndex)
                         /\ C26_SlotStep(sample_data, sample_data', C26_Slot)

\* C26: after every single-slot step of sample_func, generate_once and the
\* static loop the slot just updated is at the back of the queue, the slot at
\* the front has a minimal step count, and the queue holds every original
\* slot once; after numseqs such steps the queue is in its original order.
C26_RoundRobin == []C26_Queues /\ [][C26_Step]_vars

\* the static queue of two sequences after one slot step (sequence 1 at the
\* front) and the sample_func queue in the same position
C26_Witness ==
  /\ numseqs = 2
  /\ \/ mode = "static" /\ carry[1].sequence_index = 1
           /\ carry[2].generated_index = carry[1].generated_index + 1
     \/ mode = "dynamic" /\ sample_data[1].slot = 1
           /\ sample_data[2].generated_index = sample_data[1].generated_index + 1

\* ------------------------------------------------------------------ C27

\* what a pipeline hands on: the logits given to the draw and the id drawn
C27_Results(m, in) ==
  {[final |-> o.final, token |-> o.token] :
     o \in SampleOutcomes(m, in.logits, in.generated, in.generated_index, in.cfg, in.badwords)}

\* C27: for every logit vector, buffer, cursor and configuration the static
\* pipeline and the dynamic pipeline give the same filtered logits and the
\* same id: what one of them computed, the other can compute too.
C27_SamePipeline ==
  probe.kind = "sampled" =>
     C27_Results("static", probe.in) = C27_Results("dynamic", probe.in)

\* ------------------------------------------------------------------ C28

C28_SomeFinite(logits) == \E i \in DOMAIN logits : IsNumber(logits[i])

\* C28: in a sampling step with temp > 0 and at least three ids, if a logit
\* is finite after the badwords are masked, then a logit is finite after the
\* first-step stop suppression and the filters, and the id drawn is one whose
\* final logit is finite.
C28_DrawFromFinite ==
  (/\ probe.kind = "sampled"
   /\ probe.in.cfg.temp[1] > 0
   /\ Len0(probe.in.logits) >= 3
   /\ C28_SomeFinite(probe.out.banned))
     => /\ C28_SomeFinite(probe.out.supp)
        /\ C28_SomeFinite(probe.out.final)
        /\ IsNumber(probe.out.final[probe.out.token])

\* ------------------------------------------------------------------ C29

\* the number of ids sampled for sequence i so far
C29_Sampled(i) ==
  Cardinality({k \in 1 .. Len(events) : events[k] = Event("sample", i)})

\* C29: a static call with stop_token = -1 that has left its loop has
\* sampled exactly gen_length ids for every sequence, whatever was drawn.
C29_FullLength ==
  (mode = "static" /\ pc = "done" /\ cfg.stop_token = -1) =>
     \A i \in 1 .. numseqs :
        /\ carry[i].generated_index - seq = gen_length
        /\ C29_Sampled(carry[i].sequence_index) = gen_length

\* two sequences, two ids each, the loop left in the original order
C29_Witness ==
  /\ mode = "static" /\ pc = "done" /\ cfg.stop_token = -1
  /\ numseqs = 2 /\ gen_length = 2
  /\ Len(events) = 8
  /\ carry[1].sequence_index = 0

\* ------------------------------------------------------------------ C30

\* the calls of the one step made without callbacks: the Model for every
\* sequence, settings_callback, the sampling of every sequence
C30_OneStep ==
  C24_PerSequence("model") \o <<Event("settings", 0)>> \o C24_PerSequence("sample")

\* C30: with use_callback = FALSE generate_dynamic makes one step: one Model
\* call and one sampled id per sequence, no call of warper_callback or
\* stopping_callback, and it returns n_generated = 1 with
\* regeneration_required and halt both FALSE.
C30_SingleStep ==
  (mode = "dynamic" /\ ~use_callback) =>
     /\ \A k \in 1 .. Len(events) : events[k].call \notin {"warper", "stopping"}
     /\ Len(events) <= Len(C30_OneStep)
     /\ pc = "done" =>
           /\ events = C30_OneStep
           /\ n_generated = 1
           /\ ~regeneration_required /\ ~halt
           /\ \A i \in 1 .. numseqs : sample_data[i].generated_index = seq + 1

\* a call of two sequences without callbacks that has returned
C30_Witness ==
  /\ mode = "dynamic" /\ ~use_callback /\ pc = "done" /\ numseqs = 2
  /\ n_generated = 1 /\ Len(events) = 5

====
